---- MODULE Spec2Model ----
(***************************************************************************)
(* Model of vae/modules/encoder.py: the Encoder base class and its three   *)
(* registered variants FeedForward, Seq2Vec and Seq2Seq.                   *)
(*                                                                         *)
(* Strings are sequences of one-character strings, so that str.split and   *)
(* the f-string of the error message are computed character by character. *)
(* Tensors are nested sequences: a (B, L, H) tensor is a sequence of B     *)
(* rows, each a sequence of L positions, each a sequence of H integers.    *)
(* A float produced by an aggregation is an exact fraction <<num, den>>    *)
(* in lowest terms with den > 0.                                           *)
(***************************************************************************)
EXTENDS Integers, Sequences, FiniteSets, TLC

VARIABLES self, args, call

vars == <<self, args, call>>

---------------------------------------------------------------------------
(* Bounds of the model *)

\* largest number of comma-separated entries of an aggregation string
MaxAggs == 2
\* largest batch size B
MaxBatch == 1
\* largest sequence length L
MaxLen == 2
\* largest output dimension H of a wrapped architecture
MaxDim == 2

\* largest number of elements B * L * H of a wrapped network's output
MaxElems == 4

\* values an element of the wrapped network's output takes
Vals == {-1, 0, 2}

---------------------------------------------------------------------------
(* Strings *)

COMMA == ","
SPACE == " "
MEANPOOL == <<"m","e","a","n","p","o","o","l">>
MAXPOOL == <<"m","a","x","p","o","o","l">>
FINAL_STATE == <<"f","i","n","a","l","_","s","t","a","t","e">>
SUMPOOL == <<"s","u","m","p","o","o","l">>
EMPTY == << >>
SPACE_MAXPOOL == <<SPACE>> \o MAXPOOL

\* the text f"{aggregation} aggregation not available." appends to the name
NOT_AVAILABLE == <<" ","a","g","g","r","e","g","a","t","i","o","n"," ",
                   "n","o","t"," ","a","v","a","i","l","a","b","l","e",".">>

\* comma-free texts an entry of the aggregation string is drawn from
Names == {MEANPOOL, MAXPOOL, FINAL_STATE, SUMPOOL, EMPTY, SPACE_MAXPOOL}

Supported == {MEANPOOL, MAXPOOL, FINAL_STATE}

\* the string that holds the given texts separated by commas
RECURSIVE Join(_)
Join(names) ==
    IF Len(names) = 0 THEN << >>
    ELSE IF Len(names) = 1 THEN names[1]
    ELSE names[1] \o <<COMMA>> \o Join(Tail(names))

\* every aggregation string of at most MaxAggs entries
NameLists == UNION {[1..n -> Names] : n \in 1..MaxAggs}

\* str.split(","): scan left to right, close an entry at every comma
RECURSIVE SplitFrom(_, _, _, _)
SplitFrom(s, i, cur, acc) ==
    IF i > Len(s) THEN Append(acc, cur)
    ELSE IF s[i] = COMMA THEN SplitFrom(s, i + 1, << >>, Append(acc, cur))
    ELSE SplitFrom(s, i + 1, Append(cur, s[i]), acc)

\* a split that drops empty entries, as str.split() without a separator does
SplitSkippingEmpty(s) ==
    SelectSeq(SplitFrom(s, 1, << >>, << >>), LAMBDA e : e # << >>)

Split(s) == SplitFrom(s, 1, << >>, << >>)

---------------------------------------------------------------------------
(* Tensors and the numeric helpers forward calls *)

RECURSIVE SumSeq(_)
SumSeq(xs) == IF Len(xs) = 0 THEN 0 ELSE Head(xs) + SumSeq(Tail(xs))

RECURSIVE MaxSeq(_)
MaxSeq(xs) ==
    IF Len(xs) = 1 THEN xs[1]
    ELSE LET m == MaxSeq(Tail(xs)) IN IF xs[1] >= m THEN xs[1] ELSE m

Abs(n) == IF n < 0 THEN -n ELSE n

RECURSIVE GCD(_, _)
GCD(a, b) == IF b = 0 THEN a ELSE GCD(b, a % b)

\* the float n / d (d > 0) as a fraction in lowest terms
Frac(n, d) == LET g == GCD(Abs(n), d) IN <<n \div g, d \div g>>

\* the float of an integer tensor element
Float(n) == <<n, 1>>

\* the floats of an integer vector
FloatVector(v) == [h \in 1..Len(v) |-> Float(v[h])]

\* tensors of a given shape
Tensor3(B, L, H) == [1..B -> [1..L -> [1..H -> Vals]]]
Tensor2(B, H) == [1..B -> [1..H -> Vals]]
Masks(B, L) == [1..B -> [1..L -> {0, 1}]]

\* the batch sizes and lengths of a (B, L, H) output within the bounds
Shapes(H) ==
    {shape \in (1..MaxBatch) \X (1..MaxLen) :
        shape[1] * shape[2] * H <= MaxElems}

\* mask.unsqueeze(-1).float(): shape (B, L) becomes (B, L, 1)
Unsqueeze(mask) ==
    [b \in 1..Len(mask) |-> [l \in 1..Len(mask[b]) |-> <<mask[b][l]>>]]

\* encoded_output * broadcast_mask, the mask broadcast over the feature axis
Mul(vector, broadcast_mask) ==
    [b \in 1..Len(vector) |->
        [l \in 1..Len(vector[b]) |->
            [h \in 1..Len(vector[b][l]) |->
                vector[b][l][h] * broadcast_mask[b][l][1]]]]

\* fill value masked_max puts at masked positions (its default min_val)
MinVal == -10000000

\* a mean over all positions of the row, valid or not
MaskedMeanOverLength(vector, mask) ==
    [b \in 1..Len(vector) |->
        LET L == Len(vector[b])
            H == Len(vector[b][1])
        IN  [h \in 1..H |->
                Frac(SumSeq([l \in 1..L |->
                                IF mask[b][l][1] = 0 THEN 0
                                                     ELSE vector[b][l][h]]),
                     L)]]

\* allennlp.nn.util.masked_mean(vector, mask, dim=1, keepdim=False):
\* masked positions are filled with 0, the sum over positions is divided by
\* the number of valid positions clamped from below by eps (a row without a
\* valid position has sum 0, so its mean is 0)
MaskedMean(vector, mask) ==
    [b \in 1..Len(vector) |->
        LET L == Len(vector[b])
            H == Len(vector[b][1])
            replaced(h) == [l \in 1..L |->
                               IF mask[b][l][1] = 0 THEN 0
                                                    ELSE vector[b][l][h]]
            value_count == SumSeq([l \in 1..L |-> mask[b][l][1]])
        IN  [h \in 1..H |->
                IF value_count = 0 THEN Float(0)
                ELSE Frac(SumSeq(replaced(h)), value_count)]]

\* a maximum over the positions of the vector as given, nothing filled in
MaskedMaxNoFill(vector, mask) ==
    [b \in 1..Len(vector) |->
        LET L == Len(vector[b])
            H == Len(vector[b][1])
        IN  [h \in 1..H |-> Float(MaxSeq([l \in 1..L |-> vector[b][l][h]]))]]

\* allennlp.nn.util.masked_max(vector, mask, dim=1): masked positions are
\* filled with min_val, then the maximum over positions is taken
MaskedMax(vector, mask) ==
    [b \in 1..Len(vector) |->
        LET L == Len(vector[b])
            H == Len(vector[b][1])
            replaced(h) == [l \in 1..L |->
                               IF mask[b][l][1] = 0 THEN MinVal
                                                    ELSE vector[b][l][h]]
        IN  [h \in 1..H |-> Float(MaxSeq(replaced(h)))]]

\* last_word_indices = mask.sum(1) - 1, here 1-based: the number of valid
\* positions of each row
LastWordIndices(mask) == [b \in 1..Len(mask) |-> SumSeq(mask[b])]

\* gather fails on a row whose index is out of range (no valid position)
GatherFails(mask) == \E b \in 1..Len(mask) : LastWordIndices(mask)[b] = 0

\* the output at the last position of the row, whatever the mask
GetFinalEncoderStatesLastPosition(encoder_outputs, mask, bidirectional) ==
    [b \in 1..Len(encoder_outputs) |->
        LET H == Len(encoder_outputs[b][1])
            final == encoder_outputs[b][Len(encoder_outputs[b])]
            half == H \div 2
        IN  [h \in 1..H |->
                IF bidirectional /\ h > half
                THEN Float(encoder_outputs[b][1][h])
                ELSE Float(final[h])]]

\* for a bidirectional network, the whole final output followed by the
\* whole output at the first position
GetFinalEncoderStatesBothWhole(encoder_outputs, mask, bidirectional) ==
    [b \in 1..Len(encoder_outputs) |->
        LET final == encoder_outputs[b][LastWordIndices(mask)[b]]
        IN  IF bidirectional
            THEN FloatVector(final) \o FloatVector(encoder_outputs[b][1])
            ELSE FloatVector(final)]

\* allennlp.nn.util.get_final_encoder_states(encoder_outputs, mask,
\* bidirectional): the output at index mask.sum(1) - 1 of each row; for a
\* bidirectional network its first half, followed by the second half of
\* the output at the first position
GetFinalEncoderStates(encoder_outputs, mask, bidirectional) ==
    [b \in 1..Len(encoder_outputs) |->
        LET H == Len(encoder_outputs[b][1])
            final == encoder_outputs[b][LastWordIndices(mask)[b]]
            half == H \div 2
        IN  [h \in 1..H |->
                IF bidirectional /\ h > half
                THEN Float(encoder_outputs[b][1][h])
                ELSE Float(final[h])]]

\* a concatenation that puts the parts in the opposite order
RECURSIVE CatReversed(_)
CatReversed(parts) ==
    IF Len(parts) = 1 THEN parts[1]
    ELSE LET rest == CatReversed(Tail(parts))
         IN  [b \in 1..Len(parts[1]) |-> rest[b] \o parts[1][b]]

\* torch.cat(encoded_repr, 1): the rows of the parts, side by side
RECURSIVE Cat(_)
Cat(parts) ==
    IF Len(parts) = 1 THEN parts[1]
    ELSE LET rest == Cat(Tail(parts))
         IN  [b \in 1..Len(parts[1]) |-> parts[1][b] \o rest[b]]

---------------------------------------------------------------------------
(* The wrapped architectures *)

\* a feed-forward or sequence-to-vector network: its output dimension
Networks == [dim : 1..MaxDim]

\* a sequence-to-sequence network: its output dimension and whether it is
\* bidirectional (a bidirectional network has an even output dimension)
Seq2SeqNetworks ==
    {n \in [dim : 1..MaxDim, bidirectional : BOOLEAN] :
        n.bidirectional => n.dim % 2 = 0}

\* what a call of the wrapped network gives: its output tensor, or the
\* failure it raises (shape or type mismatch)
Returned(t) == [status |-> "ok", result |-> t]
ArchitectureFailed == [status |-> "ArchitectureError", result |-> << >>]

---------------------------------------------------------------------------
(* Outcomes of a method: the object after the call and what the call gave *)

Return(slf, value) ==
    [self |-> slf, status |-> "ok", result |-> value, message |-> << >>]

Raise(slf, error, text) ==
    [self |-> slf, status |-> error, result |-> << >>, message |-> text]

---------------------------------------------------------------------------
(* class Encoder *)

EncoderInit(architecture) ==
    [class |-> "Encoder", architecture |-> architecture]

EncoderGetOutputDim(slf) == slf.architecture.dim

\* a forward with an empty body, which returns nothing instead of raising
EncoderForwardPass(slf, fargs) == Return(slf, << >>)

EncoderForward(slf, fargs) == Raise(slf, "NotImplementedError", << >>)

(* class FeedForward *)

FeedForwardInit(architecture) ==
    [class |-> "FeedForward", architecture |-> architecture]

\* encoded is what self._architecture(embedded_text) gives
FeedForwardForward(slf, encoded) ==
    IF encoded.status = "ok" THEN Return(slf, encoded.result)
    ELSE Raise(slf, encoded.status, << >>)

(* class Seq2Vec *)

Seq2VecInit(architecture) ==
    [class |-> "Seq2Vec", architecture |-> architecture]

\* encoded is what self._architecture(embedded_text, mask) gives
Seq2VecForward(slf, encoded, mask) ==
    IF encoded.status = "ok" THEN Return(slf, encoded.result)
    ELSE Raise(slf, encoded.status, << >>)

(* class Seq2Seq *)

Seq2SeqInit(architecture, aggregations) ==
    [class |-> "Seq2Seq", architecture |-> architecture,
     aggregations |-> Split(aggregations)]

\* get_output_dim() as inherited from the base class
Seq2SeqGetOutputDimInherited(slf) == slf.architecture.dim

Seq2SeqGetOutputDim(slf) == slf.architecture.dim * Len(slf.aggregations)

RECURSIVE LStrip(_)
LStrip(s) == IF Len(s) > 0 /\ s[1] = SPACE THEN LStrip(Tail(s)) ELSE s

\* a loop body that compares the entry with its leading spaces removed
AggregateStripping(slf, aggregation, encoded_output, mask) ==
    LET name == LStrip(aggregation)
        broadcast_mask == Unsqueeze(mask)
        context_vectors == Mul(encoded_output, broadcast_mask)
    IN  IF name = MEANPOOL THEN
            Return(slf, MaskedMean(context_vectors, broadcast_mask))
        ELSE IF name = MAXPOOL THEN
            Return(slf, MaskedMax(context_vectors, broadcast_mask))
        ELSE IF name = FINAL_STATE THEN
            IF GatherFails(mask) THEN Raise(slf, "IndexError", << >>)
            ELSE Return(slf, GetFinalEncoderStates(
                                 encoded_output, mask,
                                 slf.architecture.bidirectional))
        ELSE Raise(slf, "ConfigurationError", aggregation \o NOT_AVAILABLE)

\* one pass of the loop body of forward: the vector the aggregation gives,
\* or the error it raises
Aggregate(slf, aggregation, encoded_output, mask) ==
    IF aggregation = MEANPOOL THEN
        LET broadcast_mask == Unsqueeze(mask)
            context_vectors == Mul(encoded_output, broadcast_mask)
        IN  Return(slf, MaskedMean(context_vectors, broadcast_mask))
    ELSE IF aggregation = MAXPOOL THEN
        LET broadcast_mask == Unsqueeze(mask)
            context_vectors == Mul(encoded_output, broadcast_mask)
        IN  Return(slf, MaskedMax(context_vectors, broadcast_mask))
    ELSE IF aggregation = FINAL_STATE THEN
        LET is_bi == slf.architecture.bidirectional
        IN  IF GatherFails(mask) THEN Raise(slf, "IndexError", << >>)
            ELSE Return(slf, GetFinalEncoderStates(encoded_output, mask, is_bi))
    ELSE Raise(slf, "ConfigurationError", aggregation \o NOT_AVAILABLE)

\* the loop of forward from entry i on, encoded_repr holding the vectors of
\* the entries before i, then torch.cat
RECURSIVE Seq2SeqLoop(_, _, _, _, _)
Seq2SeqLoop(slf, encoded_output, mask, i, encoded_repr) ==
    IF i > Len(slf.aggregations) THEN Return(slf, Cat(encoded_repr))
    ELSE LET encoded_text ==
                 Aggregate(slf, slf.aggregations[i], encoded_output, mask)
         IN  IF encoded_text.status # "ok" THEN encoded_text
             ELSE Seq2SeqLoop(slf, encoded_output, mask, i + 1,
                              Append(encoded_repr, encoded_text.result))

\* a forward that consumes the aggregation list while it runs, leaving the
\* encoder with the entries after the first
Seq2SeqForwardConsuming(slf, encoded, mask) ==
    IF encoded.status # "ok" THEN Raise(slf, encoded.status, << >>)
    ELSE [Seq2SeqLoop(slf, encoded.result, mask, 1, << >>)
             EXCEPT !.self = [slf EXCEPT !.aggregations = Tail(@)]]

\* encoded is what self._architecture(embedded_text, mask) gives
Seq2SeqForward(slf, encoded, mask) ==
    IF encoded.status # "ok" THEN Raise(slf, encoded.status, << >>)
    ELSE Seq2SeqLoop(slf, encoded.result, mask, 1, << >>)

\* get_output_dim() of an object, by its class
GetOutputDim(slf) ==
    IF slf.class = "Seq2Seq" THEN Seq2SeqGetOutputDim(slf)
    ELSE EncoderGetOutputDim(slf)

---------------------------------------------------------------------------
(* State: the encoder object, the arguments it was built from, and the     *)
(* call made on it with what the call gave, until the caller has taken it  *)
(* (the layer is synchronous: one call at a time)                          *)

NoObject == [class |-> "none"]
NoCall == [method |-> "none"]

Called(method, encoded, mask, out) ==
    [method |-> method, encoded |-> encoded, mask |-> mask,
     status |-> out.status, result |-> out.result, message |-> out.message]

Init ==
    /\ self = NoObject
    /\ args = << >>
    /\ call = NoCall

NewEncoder ==
    /\ self = NoObject
    /\ \E architecture \in Networks :
          /\ self' = EncoderInit(architecture)
          /\ args' = [architecture |-> architecture]
    /\ call' = NoCall

NewFeedForward ==
    /\ self = NoObject
    /\ \E architecture \in Networks :
          /\ self' = FeedForwardInit(architecture)
          /\ args' = [architecture |-> architecture]
    /\ call' = NoCall

NewSeq2Vec ==
    /\ self = NoObject
    /\ \E architecture \in Networks :
          /\ self' = Seq2VecInit(architecture)
          /\ args' = [architecture |-> architecture]
    /\ call' = NoCall

\* the aggregation string is the entries of names joined by commas
NewSeq2Seq ==
    /\ self = NoObject
    /\ \E architecture \in Seq2SeqNetworks, names \in NameLists :
          /\ self' = Seq2SeqInit(architecture, Join(names))
          /\ args' = [architecture |-> architecture,
                      aggregations |-> Join(names), names |-> names]
    /\ call' = NoCall

CallGetOutputDim ==
    /\ self # NoObject
    /\ call = NoCall
    /\ call' = [method |-> "get_output_dim", result |-> GetOutputDim(self)]
    /\ UNCHANGED <<self, args>>

\* forward(*args) of the base class, with no, one or two arguments
CallEncoderForward ==
    /\ self.class = "Encoder"
    /\ call = NoCall
    /\ \E B \in 1..MaxBatch, L \in 1..MaxLen :
       \E mask \in Masks(B, L) :
       \E fargs \in {<< >>, <<mask>>, <<mask, mask>>} :
          LET out == EncoderForward(self, fargs)
          IN  /\ self' = out.self
              /\ call' = Called("forward", fargs, mask, out)
    /\ UNCHANGED args

CallFeedForwardForward ==
    /\ self.class = "FeedForward"
    /\ call = NoCall
    /\ \E B \in {n \in 1..MaxBatch : n * self.architecture.dim <= MaxElems} :
       \E encoded \in {Returned(t) : t \in Tensor2(B, self.architecture.dim)}
                          \cup {ArchitectureFailed} :
          LET out == FeedForwardForward(self, encoded)
          IN  /\ self' = out.self
              /\ call' = Called("forward", encoded, << >>, out)
    /\ UNCHANGED args

CallSeq2VecForward ==
    /\ self.class = "Seq2Vec"
    /\ call = NoCall
    /\ \E B \in {n \in 1..MaxBatch : n * self.architecture.dim <= MaxElems},
          L \in 1..MaxLen :
       \E mask \in Masks(B, L) :
       \E encoded \in {Returned(t) : t \in Tensor2(B, self.architecture.dim)}
                          \cup {ArchitectureFailed} :
          LET out == Seq2VecForward(self, encoded, mask)
          IN  /\ self' = out.self
              /\ call' = Called("forward", encoded, mask, out)
    /\ UNCHANGED args

CallSeq2SeqForward ==
    /\ self.class = "Seq2Seq"
    /\ call = NoCall
    /\ \E shape \in Shapes(self.architecture.dim) :
       \E mask \in Masks(shape[1], shape[2]) :
       \E encoded \in {Returned(t) :
                          t \in Tensor3(shape[1], shape[2],
                                       self.architecture.dim)}
                          \cup {ArchitectureFailed} :
          LET out == Seq2SeqForward(self, encoded, mask)
          IN  /\ self' = out.self
              /\ call' = Called("forward", encoded, mask, out)
    /\ UNCHANGED args

\* the caller takes what the call gave; the next call can be made
TakeResult ==
    /\ call # NoCall
    /\ call' = NoCall
    /\ UNCHANGED <<self, args>>

Next ==
    \/ NewEncoder
    \/ NewFeedForward
    \/ NewSeq2Vec
    \/ NewSeq2Seq
    \/ CallGetOutputDim
    \/ CallEncoderForward
    \/ CallFeedForwardForward
    \/ CallSeq2VecForward
    \/ CallSeq2SeqForward
    \/ TakeResult

Spec == Init /\ [][Next]_vars

---------------------------------------------------------------------------
(* Vocabulary of the properties *)

\* the state holds what a forward call of a Seq2Seq encoder gave
Seq2SeqForwardDone == self.class = "Seq2Seq" /\ call.method = "forward"

\* ... and the call returned a result
Seq2SeqForwardReturned == Seq2SeqForwardDone /\ call.status = "ok"

\* the i-th segment of width H of a result row
Slice(row, i, H) == SubSeq(row, (i - 1) * H + 1, i * H)

NumCommas(s) == Cardinality({i \in 1..Len(s) : s[i] = COMMA})

NumValid(maskrow) == SumSeq(maskrow)

\* the last position the mask row marks valid
LastValid(maskrow) ==
    CHOOSE l \in 1..Len(maskrow) :
        maskrow[l] = 1 /\ \A k \in (l + 1)..Len(maskrow) : maskrow[k] = 0

\* index of the first entry that is not a supported aggregation name
FirstUnsupported(names) ==
    CHOOSE k \in 1..Len(names) :
        names[k] \notin Supported /\ \A j \in 1..(k - 1) : names[j] \in Supported

HasUnsupported(names) == \E k \in 1..Len(names) : names[k] \notin Supported

---------------------------------------------------------------------------
\* C1: for a Seq2Seq encoder, get_output_dim() equals the wrapped
\* architecture's output dimension times the number of entries of the
\* aggregation string it was built from, in every reachable state (after
\* construction, after forward calls that returned or failed), and a call of
\* get_output_dim() returns that value.
C1_OutputDimIsDimTimesEntries ==
    self.class = "Seq2Seq" =>
        /\ GetOutputDim(self) = args.architecture.dim * Len(args.names)
        /\ call.method = "get_output_dim" =>
               call.result = args.architecture.dim * Len(args.names)

C1_Witness ==
    /\ Seq2SeqForwardDone
    /\ call.status = "ConfigurationError"
    /\ Len(args.names) = 2
    /\ args.architecture.dim = 2

\* C2 as stated: whenever the configured list has an unsupported entry, a
\* forward call fails with a configuration error naming an unsupported entry.
C2_AlwaysConfigurationError ==
    (Seq2SeqForwardDone /\ HasUnsupported(args.names)) =>
        /\ call.status = "ConfigurationError"
        /\ \E k \in 1..Len(args.names) :
              /\ args.names[k] \notin Supported
              /\ call.message = args.names[k] \o NOT_AVAILABLE

\* C2 amended: when the wrapped network's call returns and no final_state
\* entry before the first unsupported entry meets a row without a valid
\* position, forward fails with a configuration error whose message names
\* the first unsupported entry.
C2_ConfigurationErrorAtForward ==
    (/\ Seq2SeqForwardDone
     /\ HasUnsupported(args.names)
     /\ call.encoded.status = "ok"
     /\ ~ (/\ GatherFails(call.mask)
           /\ \E j \in 1..(FirstUnsupported(args.names) - 1) :
                 args.names[j] = FINAL_STATE)) =>
        /\ call.status = "ConfigurationError"
        /\ call.message =
               args.names[FirstUnsupported(args.names)] \o NOT_AVAILABLE

C2_Witness ==
    /\ Seq2SeqForwardDone
    /\ args.names = <<FINAL_STATE, SPACE_MAXPOOL>>
    /\ call.status = "ConfigurationError"
    /\ call.message = SPACE_MAXPOOL \o NOT_AVAILABLE

\* C3: when all configured names are supported, the result of forward is,
\* row by row, the concatenation of one segment per entry of the aggregation
\* string read left to right, the i-th segment being the aggregation named by
\* the i-th entry; equal names give equal segments.
C3_SegmentsInConfiguredOrder ==
    Seq2SeqForwardReturned =>
        LET H == args.architecture.dim
            n == Len(args.names)
        IN  \A b \in 1..Len(call.result) :
               /\ Len(call.result[b]) = n * H
               /\ \A i \in 1..n :
                     Slice(call.result[b], i, H) =
                         Aggregate(self, args.names[i],
                                   call.encoded.result, call.mask).result[b]
               /\ \A i, j \in 1..n :
                     args.names[i] = args.names[j] =>
                         Slice(call.result[b], i, H) =
                             Slice(call.result[b], j, H)

C3_Witness ==
    /\ Seq2SeqForwardReturned
    /\ args.names = <<MAXPOOL, MEANPOOL>>
    /\ Slice(call.result[1], 1, args.architecture.dim)
           # Slice(call.result[1], 2, args.architecture.dim)

IsPrefixMask(maskrow) ==
    /\ NumValid(maskrow) >= 1
    /\ \A l \in 1..Len(maskrow) : maskrow[l] = 1 <=> l <= NumValid(maskrow)

\* C5 as stated: with a non-bidirectional network, the final_state segment
\* of every row equals the output vector at the last position the mask marks
\* valid.
C5_FinalStateIsLastValid ==
    (Seq2SeqForwardReturned /\ ~ args.architecture.bidirectional) =>
        LET H == args.architecture.dim
        IN  \A b \in 1..Len(call.result), i \in 1..Len(args.names) :
               (args.names[i] = FINAL_STATE /\ NumValid(call.mask[b]) >= 1) =>
                   Slice(call.result[b], i, H) =
                       FloatVector(
                           call.encoded.result[b][LastValid(call.mask[b])])

\* C5 amended: with a non-bidirectional network, the final_state segment of
\* a row whose valid positions are a non-empty prefix of the row (padding
\* only on the right) equals the output vector at the last valid position.
C5_FinalStateIsLastValidOfPrefixMask ==
    (Seq2SeqForwardReturned /\ ~ args.architecture.bidirectional) =>
        LET H == args.architecture.dim
        IN  \A b \in 1..Len(call.result), i \in 1..Len(args.names) :
               (args.names[i] = FINAL_STATE /\ IsPrefixMask(call.mask[b])) =>
                   Slice(call.result[b], i, H) =
                       FloatVector(
                           call.encoded.result[b][LastValid(call.mask[b])])

C5_Witness ==
    /\ Seq2SeqForwardReturned
    /\ ~ args.architecture.bidirectional
    /\ args.names = <<FINAL_STATE>>
    /\ call.mask[1] = <<1, 0>>
    /\ call.encoded.result[1][1] # call.encoded.result[1][2]

\* C6: forward of the base Encoder fails with a not-implemented error for
\* any arguments and leaves the encoder as it was: same object state, same
\* get_output_dim().
C6_BaseForwardNotImplemented ==
    [][(self.class = "Encoder" /\ call'.method = "forward") =>
          /\ call'.status = "NotImplementedError"
          /\ self' = self
          /\ self'.architecture = args.architecture
          /\ GetOutputDim(self') = GetOutputDim(self)]_vars

C6_Witness ==
    /\ self.class = "Encoder"
    /\ call.method = "forward"
    /\ Len(call.encoded) = 2
    /\ call.status = "NotImplementedError"

\* C7: no call changes a constructed encoder: its wrapped architecture, its
\* aggregation list (Seq2Seq) and so its get_output_dim() are the same after
\* every forward call, returned or failed, as before, for all variants.
C7_ForwardLeavesConfiguration ==
    [][self # NoObject =>
          /\ self' = self
          /\ GetOutputDim(self') = GetOutputDim(self)
          /\ call'.method = "get_output_dim" =>
                 call'.result = GetOutputDim(self)]_vars

C7_Witness ==
    /\ Seq2SeqForwardDone
    /\ call.status = "IndexError"
    /\ self.aggregations = <<MEANPOOL, FINAL_STATE>>
    /\ GetOutputDim(self) = 4

\* C8: the aggregation string is split on commas with no trimming and no
\* validation: the list holds exactly the texts between the commas, in
\* order and with duplicates, (number of commas + 1) of them; the empty
\* string gives one empty entry; every entry counts in get_output_dim().
C8_SplitOnCommas ==
    self.class = "Seq2Seq" =>
        /\ self.aggregations = args.names
        /\ Len(self.aggregations) = NumCommas(args.aggregations) + 1
        /\ args.aggregations = << >> => self.aggregations = <<EMPTY>>
        /\ GetOutputDim(self) =
               args.architecture.dim * (NumCommas(args.aggregations) + 1)

C8_Witness ==
    /\ self.class = "Seq2Seq"
    /\ args.aggregations = MEANPOOL \o <<COMMA, SPACE>> \o MAXPOOL
    /\ self.aggregations[2] = SPACE_MAXPOOL
    /\ call.method = "forward"
    /\ call.status = "ConfigurationError"

\* C9: whenever Seq2Seq.forward returns, every row of the result is as wide
\* as get_output_dim(), and every segment as wide as the wrapped
\* architecture's output dimension, bidirectional or not.
C9_ResultWidthIsOutputDim ==
    Seq2SeqForwardReturned =>
        \A b \in 1..Len(call.result) :
           /\ Len(call.result[b]) = GetOutputDim(self)
           /\ Len(call.result[b]) =
                  Len(args.names) * Len(call.encoded.result[b][1])

C9_Witness ==
    /\ Seq2SeqForwardReturned
    /\ args.architecture.bidirectional
    /\ args.names = <<FINAL_STATE, MAXPOOL>>
    /\ Len(call.result[1]) = 4

\* the rows that agree with the given row at every position its mask row
\* marks valid
AgreeingRows(row, maskrow) ==
    {alt \in [1..Len(row) -> [1..Len(row[1]) -> Vals]] :
        \A l \in 1..Len(row) : maskrow[l] = 1 => alt[l] = row[l]}

\* the largest value of feature h over the valid positions of a row
MaxOverValid(row, maskrow, h) ==
    CHOOSE v \in {row[l][h] : l \in {k \in 1..Len(row) : maskrow[k] = 1}} :
        \A l \in 1..Len(row) : maskrow[l] = 1 => row[l][h] <= v

\* C10: the meanpool and maxpool segments of a row with a valid position
\* depend only on the wrapped network's output at the valid positions: a
\* forward call on an output that differs only at padded positions of the row
\* gives the same segments; and the maxpool segment is the largest value over
\* the valid positions, also when those are negative.
C10_PoolingIgnoresPadding ==
    Seq2SeqForwardReturned =>
        LET H == args.architecture.dim
            enc == call.encoded.result
        IN  \A b \in 1..Len(call.result), i \in 1..Len(args.names) :
               (/\ args.names[i] \in {MEANPOOL, MAXPOOL}
                /\ NumValid(call.mask[b]) >= 1) =>
                   /\ \A alt \in AgreeingRows(enc[b], call.mask[b]) :
                         LET other == Seq2SeqForward(
                                          self,
                                          Returned([enc EXCEPT ![b] = alt]),
                                          call.mask)
                         IN  /\ other.status = "ok"
                             /\ Slice(other.result[b], i, H) =
                                    Slice(call.result[b], i, H)
                   /\ args.names[i] = MAXPOOL =>
                         Slice(call.result[b], i, H) =
                             [h \in 1..H |->
                                 Float(MaxOverValid(enc[b], call.mask[b], h))]

C10_Witness ==
    /\ Seq2SeqForwardReturned
    /\ args.names = <<MAXPOOL, MEANPOOL>>
    /\ call.mask[1] = <<1, 0>>
    /\ call.encoded.result[1][1][1] < 0
    /\ call.encoded.result[1][2][1] > 0
    /\ call.result[1][1] = Float(call.encoded.result[1][1][1])

====
